---- MODULE Spec2Model ----
(***************************************************************************)
(* catpath: build a separator-delimited list of directory paths from the   *)
(* command line (src/catpath.cpp).                                         *)
(*                                                                         *)
(* A C string is a sequence of one-character strings; the terminating NUL  *)
(* is the position just past the end.  A std::vector is a sequence and a   *)
(* std::set a set.                                                         *)
(***************************************************************************)
EXTENDS Integers, Sequences, FiniteSets, TLC

VARIABLES
    argv,         \* argv[1..argc-1]: the command-line arguments after the program name
    env_home,     \* value of the environment variable HOME, or NoHome when unset
    fs,           \* the directory names for which stat() succeeds with S_ISDIR
    posix,        \* TRUE when getopt() stops at the first non-option (POSIXLY_CORRECT / BSD)
    pc,           \* position in main()
    path_args,    \* struct PathArgs
    operands,     \* argv + optind as getopt() leaves it
    argp,         \* index into operands of main's argp
    path,         \* main's string path
    entries,      \* the strings build_path appended to path, in order (line 186)
    expanded,     \* curr_path after the expansion step, per token processed (line 157)
    stat_log,     \* the calls of is_dir made by build_path with their results (line 165)
    iter,         \* build_path's iterator when it returned or threw
    excp,         \* the exception in flight, or NoExcp
    cout,         \* what was written to standard output
    cerr,         \* what was written to standard error
    rc            \* main's rc, the exit code once pc = "exit"

vars == <<argv, env_home, fs, posix, pc, path_args, operands, argp, path, entries,
          expanded, stat_log, iter, excp, cout, cerr, rc>>

\* ---------------------------------------------------------------- values

NUL == "NUL"                 \* the character '\0'
NullPtr == <<"NULL">>        \* the null pointer (no C string has this shape)
NoExcp == [type |-> "none", what |-> ""]
DEFAULT_SEP == ":"

CharAt(s, i) == IF i >= 1 /\ i <= Len(s) THEN s[i] ELSE NUL

\* ---------------------------------------------------------------- parse_path

\* (variant: only one separator is skipped before a token)
SkipSeparators_Once(s, start, sep) ==
    IF CharAt(s, start) = sep THEN start + 1 ELSE start

RECURSIVE SkipSeparators(_, _, _)
SkipSeparators(s, start, sep) ==
    IF CharAt(s, start) = sep THEN SkipSeparators(s, start + 1, sep) ELSE start

RECURSIVE FindStop(_, _, _)
FindStop(s, stop, sep) ==
    IF CharAt(s, stop) # NUL /\ CharAt(s, stop) # sep
    THEN FindStop(s, stop + 1, sep)
    ELSE stop

RECURSIVE ParseLoop(_, _, _, _)
ParseLoop(s, vec, start0, sep) ==
    LET start == SkipSeparators(s, start0, sep) IN
    IF CharAt(s, start) = NUL
    THEN vec
    ELSE LET stop == FindStop(s, start + 1, sep) IN
         ParseLoop(s, Append(vec, SubSeq(s, start, stop - 1)), stop, sep)

parse_path(p, vec, sep) ==
    IF p = NullPtr \/ p = <<>> THEN vec ELSE ParseLoop(p, vec, 1, sep)

\* ---------------------------------------------------------------- is_dir

\* stat() resolves the name component by component: repeated and trailing
\* slashes do not matter.  A filesystem is the set of component lists that are
\* directories (the root is the empty list); stat( "" ) fails.
PathComponents(dirname) == parse_path(dirname, <<>>, "/")

is_dir(dirname, filesystem) ==
    dirname # <<>> /\ PathComponents(dirname) \in filesystem

\* ---------------------------------------------------------------- getopt

OptChars == {"d", "f", "h", "s", "x"}      \* optstring ":dfhs:x"

\* One call of getopt(): i is optind, j the position of the next option character
\* inside argv[i] (0: at the start of an element), skipped the non-options that
\* a permuting getopt() has moved behind the options so far.
RECURSIVE getopt(_, _, _, _, _)
getopt(av, i, j, skipped, psx) ==
    IF j = 0
    THEN IF i > Len(av)
         THEN [opt |-> "EOF", optarg |-> <<>>, optopt |-> "", i |-> i, j |-> 0,
               skipped |-> skipped, operands |-> skipped]
         ELSE IF av[i] = <<"-", "-">>
         THEN [opt |-> "EOF", optarg |-> <<>>, optopt |-> "", i |-> i + 1, j |-> 0,
               skipped |-> skipped,
               operands |-> skipped \o SubSeq(av, i + 1, Len(av))]
         ELSE IF Len(av[i]) >= 2 /\ av[i][1] = "-"
         THEN getopt(av, i, 2, skipped, psx)
         ELSE IF psx
         THEN [opt |-> "EOF", optarg |-> <<>>, optopt |-> "", i |-> i, j |-> 0,
               skipped |-> skipped,
               operands |-> skipped \o SubSeq(av, i, Len(av))]
         ELSE getopt(av, i + 1, 0, Append(skipped, av[i]), psx)
    ELSE LET c == av[i][j]
             last == j = Len(av[i])
             ni == IF last THEN i + 1 ELSE i
             nj == IF last THEN 0 ELSE j + 1
             base == [opt |-> c, optarg |-> <<>>, optopt |-> "", i |-> ni, j |-> nj,
                      skipped |-> skipped, operands |-> <<>>]
         IN  IF c \notin OptChars
             THEN [base EXCEPT !.opt = "?", !.optopt = c]
             ELSE IF c # "s"
             THEN base
             ELSE IF ~last
             THEN [base EXCEPT !.optarg = SubSeq(av[i], j + 1, Len(av[i])),
                               !.i = i + 1, !.j = 0]
             ELSE IF i + 1 <= Len(av)
             THEN [base EXCEPT !.optarg = av[i + 1], !.i = i + 2, !.j = 0]
             ELSE [base EXCEPT !.opt = ":", !.optopt = "s"]

\* ---------------------------------------------------------------- get_opts

EmptySepMsg == "Specified separator is an empty string"
MultiSepMsg == "Specified separator consists of multiple characters"
ConflictSepMsg == "Conflicting specifications for separator character"
MissingArgMsg(optopt) == "Required argument missing on -" \o optopt \o " option"
InvalidOptMsg(optopt) == "Invalid option -" \o optopt \o " on command line"
InternalMsg(optopt) == "Internal error: unexpected value '" \o optopt \o "' of optopt"

Defaults ==
    [arg_vec |-> <<>>, sep |-> DEFAULT_SEP, allow_dups |-> FALSE, force |-> FALSE,
     help |-> FALSE, expand |-> FALSE]

\* (variant: the test forgets sep_found and compares with the default as well)
SepConflict_NoFound(sep_found, sep, pa) == sep # pa.sep

SepConflict(sep_found, sep, pa) == sep_found /\ sep # pa.sep

\* The while loop over getopt() and its switch.  thrown is the what() of the
\* runtime_error thrown, or "" when the loop ends normally.
RECURSIVE GetOptsLoop(_, _, _, _, _, _, _)
GetOptsLoop(av, i, j, skipped, pa, sep_found, psx) ==
    LET g == getopt(av, i, j, skipped, psx)
        Throw(msg) == [thrown |-> msg, pa |-> pa, operands |-> <<>>]
        Go(npa, nfound) == GetOptsLoop(av, g.i, g.j, g.skipped, npa, nfound, psx)
    IN  CASE g.opt = "EOF" -> [thrown |-> "", pa |-> pa, operands |-> g.operands]
          [] g.opt = "d" -> Go([pa EXCEPT !.allow_dups = TRUE], sep_found)
          [] g.opt = "f" -> Go([pa EXCEPT !.force = TRUE], sep_found)
          [] g.opt = "h" -> Go([pa EXCEPT !.help = TRUE], sep_found)
          [] g.opt = "s" ->
                IF CharAt(g.optarg, 1) = NUL
                THEN Throw(EmptySepMsg)
                ELSE IF CharAt(g.optarg, 2) # NUL
                THEN Throw(MultiSepMsg)
                ELSE IF SepConflict(sep_found, g.optarg[1], pa)
                THEN Throw(ConflictSepMsg)
                ELSE Go([pa EXCEPT !.sep = g.optarg[1]], TRUE)
          [] g.opt = "x" -> Go([pa EXCEPT !.expand = TRUE], sep_found)
          [] g.opt = ":" -> Throw(MissingArgMsg(g.optopt))
          [] g.opt = "?" -> Throw(InvalidOptMsg(g.optopt))
          [] OTHER -> Throw(InternalMsg(g.optopt))

get_opts(av, psx) == GetOptsLoop(av, 1, 0, <<>>, Defaults, FALSE, psx)

\* ---------------------------------------------------------------- build_path

OutOfRangeMsg == "basic_string::at"

\* string::at(n) throws std::out_of_range when n >= size()
AtThrows(s, n) == n >= Len(s)

\* line 145: the expansion test; the second at() is evaluated only after the
\* first comparison succeeded
ExpandTestThrows(pa, curr_path) ==
    pa.expand /\ (AtThrows(curr_path, 0) \/ (curr_path[1] = "~" /\ AtThrows(curr_path, 1)))

WantsExpansion(pa, curr_path) ==
    pa.expand /\ curr_path[1] = "~" /\ curr_path[2] = "/"

\* (variant: erase( 0, 2 ), which takes the slash as well)
ReplaceTilde_DropSlash(curr_path, home) == home \o Tail(Tail(curr_path))

\* lines 154-155: erase( 0, 1 ) then insert( 0, home )
ReplaceTilde(curr_path, home) == home \o Tail(curr_path)

\* line 159
DirTestThrows(pa, curr_path) == ~pa.force /\ AtThrows(curr_path, 0)

\* (variant: the check is made for relative names too)
MustCheckDir_All(pa, curr_path) == ~pa.force

MustCheckDir(pa, curr_path) == ~pa.force /\ curr_path[1] = "/"

\* (variant: the set is never filled, so nothing is ever found in it)
AlreadyIncluded_Never(dir_set, curr_path) == FALSE

\* line 174
AlreadyIncluded(dir_set, curr_path) == curr_path \in dir_set

\* (variant: the entry is put in front of path)
AppendPath_Front(st, sep, curr_path) ==
    [st EXCEPT !.path = curr_path \o (IF @ # <<>> THEN <<sep>> \o @ ELSE @),
               !.entries = <<curr_path>> \o @]

\* lines 183-186: the separator when path is not empty, then the entry at the end
AppendPath(st, sep, curr_path) ==
    [st EXCEPT !.path = (IF @ # <<>> THEN Append(@, sep) ELSE @) \o curr_path,
               !.entries = Append(@, curr_path)]

\* The while loop of build_path.  st holds the locals and the string path;
\* thrown is the what() of the exception that ended the loop, or "".
RECURSIVE BuildLoop(_, _, _, _)
BuildLoop(pa, env, filesystem, st) ==
    IF st.iter > Len(pa.arg_vec)
    THEN [st EXCEPT !.thrown = ""]
    ELSE
    LET tok == pa.arg_vec[st.iter] IN
    IF ExpandTestThrows(pa, tok)
    THEN [st EXCEPT !.thrown = OutOfRangeMsg]
    ELSE
    LET wants == WantsExpansion(pa, tok)
        home == IF wants /\ st.home = NullPtr THEN env ELSE st.home
        curr_path == IF wants /\ home # NullPtr THEN ReplaceTilde(tok, home) ELSE tok
        st1 == [st EXCEPT !.home = home, !.expanded = Append(@, curr_path)]
    IN
    IF DirTestThrows(pa, curr_path)
    THEN [st1 EXCEPT !.thrown = OutOfRangeMsg]
    ELSE
    LET check == MustCheckDir(pa, curr_path)
        found == is_dir(curr_path, filesystem)
        st2 == IF check
               THEN [st1 EXCEPT !.stat_log =
                         Append(@, [dirname |-> curr_path, result |-> found])]
               ELSE st1
    IN
    IF check /\ ~found
    THEN BuildLoop(pa, env, filesystem, [st2 EXCEPT !.iter = @ + 1])
    ELSE IF ~pa.allow_dups /\ AlreadyIncluded(st2.dir_set, curr_path)
    THEN BuildLoop(pa, env, filesystem, [st2 EXCEPT !.iter = @ + 1])
    ELSE LET st3 == [st2 EXCEPT !.dir_set =
                        IF pa.allow_dups THEN @ ELSE @ \cup {curr_path}]
         IN  BuildLoop(pa, env, filesystem,
                 [AppendPath(st3, pa.sep, curr_path) EXCEPT !.iter = @ + 1])

build_path(pa, env, filesystem) ==
    BuildLoop(pa, env, filesystem,
        [thrown |-> "", iter |-> 1, home |-> NullPtr, dir_set |-> {}, path |-> <<>>,
         entries |-> <<>>, expanded |-> <<>>, stat_log |-> <<>>])

\* ---------------------------------------------------------------- main

HelpText == <<"Usaage: catpath [OPTION...] PATH...">>

\* line 77: get_opts, which either fills path_args or throws
MainGetOpts ==
    /\ pc = "get_opts"
    /\ LET r == get_opts(argv, posix) IN
       /\ path_args' = r.pa
       /\ IF r.thrown # ""
          THEN /\ excp' = [type |-> "runtime_error", what |-> r.thrown]
               /\ pc' = "catch"
               /\ UNCHANGED operands
          ELSE /\ operands' = r.operands
               /\ pc' = "opts_done"
               /\ UNCHANGED excp
    /\ UNCHANGED <<argv, env_home, fs, posix, argp, path, entries, expanded, stat_log,
                   iter, cout, cerr, rc>>

\* lines 78-82
MainShowHelp ==
    /\ pc = "opts_done"
    /\ path_args.help
    /\ cout' = Append(cout, HelpText)
    /\ pc' = "exit"
    /\ UNCHANGED <<argv, env_home, fs, posix, path_args, operands, argp, path, entries,
                   expanded, stat_log, iter, excp, cerr, rc>>

\* lines 89-94: one turn of the loop over the non-option arguments
MainParseArg ==
    /\ pc = "opts_done"
    /\ ~path_args.help
    /\ argp <= Len(operands)
    /\ path_args' = [path_args EXCEPT
                        !.arg_vec = parse_path(operands[argp], @, path_args.sep)]
    /\ argp' = argp + 1
    /\ UNCHANGED <<argv, env_home, fs, posix, pc, operands, path, entries, expanded,
                   stat_log, iter, excp, cout, cerr, rc>>

\* lines 98-100: build_path, then the output line
MainBuildPath ==
    /\ pc = "opts_done"
    /\ ~path_args.help
    /\ argp > Len(operands)
    /\ LET r == build_path(path_args, env_home, fs) IN
       /\ path' = r.path
       /\ entries' = r.entries
       /\ expanded' = r.expanded
       /\ stat_log' = r.stat_log
       /\ iter' = r.iter
       /\ IF r.thrown # ""
          THEN /\ excp' = [type |-> "out_of_range", what |-> r.thrown]
               /\ pc' = "catch"
               /\ UNCHANGED cout
          ELSE /\ cout' = Append(cout, Append(r.path, "\n"))
               /\ pc' = "exit"
               /\ UNCHANGED excp
    /\ UNCHANGED <<argv, env_home, fs, posix, path_args, operands, argp, cerr, rc>>

\* lines 102-110
CatchRuntimeError ==
    /\ pc = "catch"
    /\ excp.type = "runtime_error"
    /\ cerr' = Append(cerr, [prefix |-> "", what |-> excp.what])
    /\ rc' = 1
    /\ excp' = NoExcp
    /\ pc' = "exit"
    /\ UNCHANGED <<argv, env_home, fs, posix, path_args, operands, argp, path, entries,
                   expanded, stat_log, iter, cout>>

\* lines 111-119
CatchException ==
    /\ pc = "catch"
    /\ excp.type \notin {"runtime_error", "none"}
    /\ cerr' = Append(cerr, [prefix |-> "Exception encountered: ", what |-> excp.what])
    /\ rc' = 1
    /\ excp' = NoExcp
    /\ pc' = "exit"
    /\ UNCHANGED <<argv, env_home, fs, posix, path_args, operands, argp, path, entries,
                   expanded, stat_log, iter, cout>>

\* A call parse_path( operands[1], path_args.arg_vec, path_args.sep ) on its own
ParsePathCall ==
    /\ pc = "parse_path"
    /\ path_args' = [path_args EXCEPT
                        !.arg_vec = parse_path(operands[1], @, path_args.sep)]
    /\ pc' = "returned"
    /\ UNCHANGED <<argv, env_home, fs, posix, operands, argp, path, entries, expanded,
                   stat_log, iter, excp, cout, cerr, rc>>

\* ---------------------------------------------------------------- inputs

MaxOperands == 2     \* non-option arguments on a command line
MaxOptArgs == 3      \* arguments of a command line made of options
MaxRawLen == 4       \* characters of a raw string given to parse_path alone

SeqsUpTo(S, n) == UNION {[1..k -> S] : k \in 0..n}

\* The path lists given as non-option arguments
RawChoices ==
    { <<"a">>,
      <<"/", "a">>,
      <<"~">>,
      <<"~", "/", "a">>,
      <<"/", "a", "/", "a">>,
      <<":", "/", "a", ":", ":", "~", "/", "a", ":">>,
      <<"a", ":", "/", "a", "/", "a">> }

FlagChoices ==
    { <<>>,
      << <<"-", "d">> >>, << <<"-", "f">> >>, << <<"-", "x">> >>,
      << <<"-", "d", "f">> >>, << <<"-", "d", "x">> >>, << <<"-", "f", "x">> >>,
      << <<"-", "d", "f", "x">> >> }

SepChoices == { <<>>, << <<"-", "s", "a">> >> }

\* HOME unset, a plain directory, the empty string, and values that hold the
\* separator or begin with ~/
HomeChoices == { NullPtr, <<"/", "a">>, <<>>, <<":">>, <<"~", "/">> }

FsChoices ==
    { { <<>>, << <<"a">> >> },
      { <<>>, << <<"a">> >>, << <<"a">>, <<"a">> >> } }

\* The arguments of a command line that exercises the options
OptArgChoices ==
    { <<"-", "d", "h">>, <<"-", "x">>, <<"-", "s">>, <<"-", "s", ";">>,
      <<"-", "s", ":">>, <<";">>, <<>>, <<"-", "q">>, <<"-", "-">>,
      <<"a", ";", "a">> }

Blank ==
    /\ path_args = Defaults
    /\ operands = <<>>
    /\ argp = 1
    /\ path = <<>>
    /\ entries = <<>>
    /\ expanded = <<>>
    /\ stat_log = <<>>
    /\ iter = 1
    /\ excp = NoExcp
    /\ cout = <<>>
    /\ cerr = <<>>
    /\ rc = 0

\* Command lines of the form [-dfx] [-sa] PATH...
InitBuild ==
    /\ \E fl \in FlagChoices, sp \in SepChoices, ops \in SeqsUpTo(RawChoices, MaxOperands) :
          argv = fl \o sp \o ops
    /\ env_home \in HomeChoices
    /\ fs \in FsChoices
    /\ posix = FALSE
    /\ pc = "get_opts"
    /\ Blank

\* Command lines made of options, well-formed or not
InitOpts ==
    /\ argv \in SeqsUpTo(OptArgChoices, MaxOptArgs)
    /\ env_home = <<"/", "a">>
    /\ fs = { <<>>, << <<"a">> >> }
    /\ posix \in BOOLEAN
    /\ pc = "get_opts"
    /\ Blank

Init == InitBuild \/ InitOpts

Next ==
    \/ MainGetOpts
    \/ MainShowHelp
    \/ MainParseArg
    \/ MainBuildPath
    \/ CatchRuntimeError
    \/ CatchException

Spec == Init /\ [][Next]_vars

\* parse_path alone: any raw string, the null pointer included, and a vector
\* that may already hold entries
RawAlphabet == {":", "a", "/"}

PriorVecChoices == { <<>>, << <<"/", "a">>, <<"a">> >> }

InitParse ==
    /\ argv = <<>>
    /\ env_home = NullPtr
    /\ fs = {}
    /\ posix = FALSE
    /\ pc = "parse_path"
    /\ \E v \in PriorVecChoices, c \in {":", "a"} :
          path_args = [Defaults EXCEPT !.arg_vec = v, !.sep = c]
    /\ \E raw \in SeqsUpTo(RawAlphabet, MaxRawLen) \cup {NullPtr} : operands = <<raw>>
    /\ argp = 1
    /\ path = <<>>
    /\ entries = <<>>
    /\ expanded = <<>>
    /\ stat_log = <<>>
    /\ iter = 1
    /\ excp = NoExcp
    /\ cout = <<>>
    /\ cerr = <<>>
    /\ rc = 0

NextParse == ParsePathCall

SpecParse == InitParse /\ [][NextParse]_vars

\* ---------------------------------------------------------------- vocabulary of the properties

Range(s) == {s[i] : i \in 1..Len(s)}

\* build_path returned and its result was printed
BuildReturned == pc = "exit" /\ ~path_args.help /\ rc = 0

\* build_path ended with an exception, not yet caught
BuildThrew == pc = "catch" /\ excp.type = "out_of_range"

BeginsTildeSlash(tok) == Len(tok) >= 2 /\ tok[1] = "~" /\ tok[2] = "/"

IsAbsolute(tok) == Len(tok) >= 1 /\ tok[1] = "/"

\* What home expansion is to make of a token
HomeExpanded(tok) ==
    IF path_args.expand /\ BeginsTildeSlash(tok) /\ env_home # NullPtr
    THEN env_home \o SubSeq(tok, 2, Len(tok))
    ELSE tok

\* The flat token list after home expansion
PostExpansion == [i \in 1..Len(path_args.arg_vec) |-> HomeExpanded(path_args.arg_vec[i])]

FirstIndex(s, e) == CHOOSE i \in 1..Len(s) : s[i] = e /\ \A j \in 1..(i - 1) : s[j] # e

Count(s, e) == Cardinality({i \in 1..Len(s) : s[i] = e})

RECURSIVE IsSubsequence(_, _)
IsSubsequence(a, b) ==
    IF a = <<>> THEN TRUE
    ELSE IF b = <<>> THEN FALSE
    ELSE IF a[1] = b[1] THEN IsSubsequence(Tail(a), Tail(b))
    ELSE IsSubsequence(a, Tail(b))

\* The elements of s at the indices K, in the order of s
AtIndices(s, K) ==
    LET nth(k) == CHOOSE i \in K : Cardinality({q \in K : q < i}) = k - 1
    IN  [k \in 1..Cardinality(K) |-> s[nth(k)]]

RECURSIVE Join(_, _)
Join(s, sep) ==
    IF s = <<>> THEN <<>>
    ELSE IF Len(s) = 1 THEN s[1]
    ELSE s[1] \o <<sep>> \o Join(Tail(s), sep)

CleanOutput(p, sep) ==
    /\ p # <<>> => p[1] # sep /\ p[Len(p)] # sep
    /\ \A i \in 1..(Len(p) - 1) : ~(p[i] = sep /\ p[i + 1] = sep)

\* ---------------------------------------------------------------- C1

\* C1: the string build_path produces never starts or ends with the separator
\* and never holds two separators in a row, whatever the arguments, the flags
\* and HOME.
C1_CleanOutput == BuildReturned => CleanOutput(path, path_args.sep)

\* ---------------------------------------------------------------- C2

\* C2: with duplicates disallowed no string is appended twice, and of the
\* tokens that are equal after home expansion it is the first in input order
\* that is kept: what precedes a kept entry in the output precedes the first
\* occurrence of its text in the token list.
C2_DedupFirstWins ==
    (BuildReturned /\ ~path_args.allow_dups) =>
        /\ \A e \in Range(PostExpansion) : Count(entries, e) <= 1
        /\ \A k \in 1..Len(entries) :
              /\ entries[k] \in Range(PostExpansion)
              /\ IsSubsequence(SubSeq(entries, 1, k),
                               SubSeq(PostExpansion, 1, FirstIndex(PostExpansion, entries[k])))

\* a run where ~/a and /a/a are the same entry, kept once, ahead of a later token
C2_Witness ==
    /\ BuildReturned
    /\ ~path_args.allow_dups
    /\ path_args.expand
    /\ env_home = <<"/", "a">>
    /\ path_args.arg_vec = << <<"~", "/", "a">>, <<"a">>, <<"/", "a", "/", "a">> >>
    /\ entries = << <<"/", "a", "/", "a">>, <<"a">> >>

\* ---------------------------------------------------------------- C3

\* C3: the entries of the output are a subsequence of the post-expansion token
\* list (tokens are omitted, never reordered), and without duplicates the
\* entries stand in the order of their first appearance.
C3_OrderPreserved ==
    BuildReturned =>
        /\ IsSubsequence(entries, PostExpansion)
        /\ ~path_args.allow_dups =>
              \A m, k \in 1..Len(entries) :
                  m < k => FirstIndex(PostExpansion, entries[m])
                              < FirstIndex(PostExpansion, entries[k])

\* tokens of two arguments, one dropped in the middle, the rest in input order
C3_Witness ==
    /\ BuildReturned
    /\ Len(operands) = 2
    /\ Len(path_args.arg_vec) >= 3
    /\ Len(entries) >= 2
    /\ Len(entries) < Len(path_args.arg_vec)
    /\ entries[1] = PostExpansion[1]
    /\ entries[Len(entries)] = PostExpansion[Len(PostExpansion)]

\* ---------------------------------------------------------------- C4

\* C4: without -f every absolute entry of the output was reported as a
\* directory by is_dir when it was processed, is_dir is never asked about a
\* relative name, and every relative token is in the output.
C4_ExistenceFilter ==
    (BuildReturned /\ ~path_args.force) =>
        /\ \A k \in 1..Len(entries) :
              IsAbsolute(entries[k]) =>
                  [dirname |-> entries[k], result |-> TRUE] \in Range(stat_log)
        /\ \A l \in 1..Len(stat_log) : IsAbsolute(stat_log[l].dirname)
        /\ \A i \in 1..Len(PostExpansion) :
              ~IsAbsolute(PostExpansion[i]) => PostExpansion[i] \in Range(entries)

\* a missing directory dropped, an existing one and a relative name kept
C4_Witness ==
    /\ BuildReturned
    /\ ~path_args.force
    /\ [dirname |-> <<"/", "a", "/", "a">>, result |-> FALSE] \in Range(stat_log)
    /\ [dirname |-> <<"/", "a">>, result |-> TRUE] \in Range(stat_log)
    /\ <<"/", "a">> \in Range(entries)
    /\ <<"a">> \in Range(entries)
    /\ <<"/", "a", "/", "a">> \notin Range(entries)

\* ---------------------------------------------------------------- C5

\* C5: build_path run again on its own output, split with parse_path and the
\* same separator, gives the same token sequence.
C5_Idempotent ==
    BuildReturned =>
        LET t1 == parse_path(path, <<>>, path_args.sep)
            r2 == build_path([path_args EXCEPT !.arg_vec = t1], env_home, fs)
        IN  /\ r2.thrown = ""
            /\ parse_path(r2.path, <<>>, path_args.sep) = t1

\* ---------------------------------------------------------------- C6

\* C6: with -x a token that is the single character ~ is an ordinary relative
\* token: no error is raised and it appears in the output.
C6_LoneTildeLiteral ==
    (pc \in {"catch", "exit"} /\ ~path_args.help /\ path_args.expand
        /\ <<"~">> \in Range(path_args.arg_vec)) =>
        /\ pc = "exit"
        /\ rc = 0
        /\ <<"~">> \in Range(entries)

\* ---------------------------------------------------------------- C7

\* The maximal non-empty separator-free stretches of s, as index pairs
Stretches(s, sep) ==
    {r \in (1..Len(s)) \X (1..Len(s)) :
        /\ r[1] <= r[2]
        /\ \A k \in r[1]..r[2] : s[k] # sep
        /\ r[1] = 1 \/ s[r[1] - 1] = sep
        /\ r[2] = Len(s) \/ s[r[2] + 1] = sep}

\* ... as strings, from left to right; none for the null pointer
MaximalTokens(s, sep) ==
    IF s = NullPtr THEN <<>>
    ELSE LET R == Stretches(s, sep)
             nth(k) == CHOOSE r \in R : Cardinality({q \in R : q[1] < r[1]}) = k - 1
         IN  [k \in 1..Cardinality(R) |-> SubSeq(s, nth(k)[1], nth(k)[2])]

\* C7: parse_path appends exactly the maximal non-empty separator-free
\* substrings of the raw string, from left to right, and leaves the entries
\* already in the vector alone; a null or empty string appends nothing.
C7_ParsePathTokens ==
    [][ParsePathCall =>
          path_args'.arg_vec =
              path_args.arg_vec \o MaximalTokens(operands[1], path_args.sep)]_vars

\* a::/ appended as a and / behind the two entries the vector held
C7_Witness ==
    /\ pc = "returned"
    /\ operands = << <<"a", ":", ":", "/">> >>
    /\ path_args.sep = ":"
    /\ path_args.arg_vec = << <<"/", "a">>, <<"a">>, <<"a">>, <<"/">> >>

\* ---------------------------------------------------------------- C8

FlagChars == {"d", "f", "h", "x"}

IsCluster(e) == Len(e) >= 2 /\ e[1] = "-" /\ e # <<"-", "-">>

\* a cluster of options that take no argument: -d, -fx, ...
SimpleFlags(e) == IsCluster(e) /\ \A m \in 2..Len(e) : e[m] \in FlagChars

\* -sX: the separator option with its one-character argument attached
AttachedSep(e) == Len(e) = 3 /\ e[1] = "-" /\ e[2] = "s"

IsOperand(e) == e = <<>> \/ e[1] # "-"

\* The configuration error that the first argument which is not a cluster of
\* simple flags makes certain, or "" when it makes none certain.
FirstError(av) ==
    IF \A i \in 1..Len(av) : SimpleFlags(av[i]) THEN ""
    ELSE
    LET k == CHOOSE i \in 1..Len(av) :
                 ~SimpleFlags(av[i]) /\ \A q \in 1..(i - 1) : SimpleFlags(av[q])
        e == av[k]
    IN  IF ~IsCluster(e) THEN ""
        ELSE
        LET m == CHOOSE z \in 2..Len(e) :
                     e[z] \notin FlagChars /\ \A q \in 2..(z - 1) : e[q] \in FlagChars
            attached == SubSeq(e, m + 1, Len(e))
        IN  IF e[m] # "s" THEN InvalidOptMsg(e[m])
            ELSE IF Len(attached) >= 2 THEN MultiSepMsg
            ELSE IF Len(attached) = 1 THEN ""
            ELSE IF k = Len(av) THEN MissingArgMsg("s")
            ELSE IF av[k + 1] = <<>> THEN EmptySepMsg
            ELSE IF Len(av[k + 1]) >= 2 THEN MultiSepMsg
            ELSE ""

AttachedSeps(av) == {av[i][3] : i \in {q \in 1..Len(av) : AttachedSep(av[q])}}

ConfigErrorPending == pc = "catch" /\ excp.type = "runtime_error"

ConfigErrorReported == \E k \in 1..Len(cerr) : cerr[k].prefix = ""

NothingDone ==
    /\ path_args.arg_vec = <<>>
    /\ argp = 1
    /\ entries = <<>>
    /\ cout = <<>>

ConfigErrorIs(msg) ==
    \/ ConfigErrorPending /\ excp.what = msg
    \/ pc = "exit" /\ cerr = <<[prefix |-> "", what |-> msg]>> /\ rc = 1

\* C8: a configuration error is raised by get_opts before anything is tokenized
\* or assembled and ends the run with exit code 1 and nothing on standard
\* output; -s given several times with one and the same character is no error.
C8_ConfigErrors ==
    /\ ConfigErrorPending => NothingDone
    /\ (pc = "exit" /\ ConfigErrorReported) => (rc = 1 /\ NothingDone)
    /\ (pc # "get_opts" /\ FirstError(argv) # "") => ConfigErrorIs(FirstError(argv))
    /\ (pc # "get_opts"
          /\ (\A i \in 1..Len(argv) : SimpleFlags(argv[i]) \/ AttachedSep(argv[i])))
       => IF Cardinality(AttachedSeps(argv)) > 1
          THEN ConfigErrorIs(ConflictSepMsg)
          ELSE ~ConfigErrorPending /\ ~ConfigErrorReported
    /\ (pc # "get_opts"
          /\ (\A i \in 1..Len(argv) :
                SimpleFlags(argv[i]) \/ AttachedSep(argv[i]) \/ IsOperand(argv[i]))
          /\ Cardinality(AttachedSeps(argv)) <= 1)
       => ~ConfigErrorPending /\ ~ConfigErrorReported

\* -s; -s: has ended with the conflict reported, exit code 1, nothing printed
C8_Witness ==
    /\ pc = "exit"
    /\ argv = << <<"-", "s", ";">>, <<"-", "s", ":">> >>
    /\ cerr = <<[prefix |-> "", what |-> ConflictSepMsg]>>
    /\ rc = 1
    /\ cout = <<>>

\* -s; given twice is accepted and ; is the separator
C8_WitnessSame ==
    /\ pc = "exit"
    /\ argv = << <<"-", "s", ";">>, <<"-", "s", ";">>, <<"a", ";", "a">> >>
    /\ path_args.sep = ";"
    /\ rc = 0
    /\ cerr = <<>>

\* ---------------------------------------------------------------- C9

\* C9: a token is rewritten only when -x is given, it begins with ~/ and HOME
\* is set, and it then becomes HOME followed by the token without its ~;
\* with HOME unset, or without -x, it stays as it is, no error is raised on
\* it and the tokens after it are processed.
C9_HomeExpansion ==
    (BuildReturned \/ BuildThrew) =>
        /\ Len(expanded) = IF BuildThrew THEN iter - 1 ELSE Len(path_args.arg_vec)
        /\ \A i \in 1..Len(expanded) :
              expanded[i] =
                  IF path_args.expand /\ BeginsTildeSlash(path_args.arg_vec[i])
                        /\ env_home # NullPtr
                  THEN env_home \o Tail(path_args.arg_vec[i])
                  ELSE path_args.arg_vec[i]
        /\ BuildThrew => ~BeginsTildeSlash(path_args.arg_vec[iter])

\* ~/a became /a/a with HOME = /a
C9_Witness ==
    /\ BuildReturned
    /\ path_args.expand
    /\ env_home = <<"/", "a">>
    /\ path_args.arg_vec = << <<"a">>, <<"~", "/", "a">> >>
    /\ expanded = << <<"a">>, <<"/", "a", "/", "a">> >>

\* HOME unset: ~/a stayed literal and the token after it was processed
C9_WitnessUnset ==
    /\ BuildReturned
    /\ path_args.expand
    /\ env_home = NullPtr
    /\ path_args.arg_vec = << <<"~", "/", "a">>, <<"a">> >>
    /\ entries = << <<"~", "/", "a">>, <<"a">> >>

\* ---------------------------------------------------------------- C10

Missing(i) ==
    ~path_args.force /\ IsAbsolute(PostExpansion[i]) /\ ~is_dir(PostExpansion[i], fs)

Repeated(i) ==
    ~path_args.allow_dups
        /\ \E j \in 1..(i - 1) : PostExpansion[j] = PostExpansion[i] /\ ~Missing(j)

Appended == {i \in 1..Len(PostExpansion) : ~Missing(i) /\ ~Repeated(i)}

\* C10: a token is left out only when it is an absolute name that is_dir
\* rejected (without -f) or repeats a token already appended (without -d);
\* every other token is appended once per occurrence, in order, with one
\* separator between neighbours.  With -d and -f the output is the whole
\* post-expansion token list.
C10_OnlyTwoOmissions ==
    (pc = "exit" /\ ~path_args.help /\ ~ConfigErrorReported) =>
        /\ entries = AtIndices(PostExpansion, Appended)
        /\ path = Join(entries, path_args.sep)
        /\ cout = <<Append(path, "\n")>>
        /\ (path_args.allow_dups /\ path_args.force) => entries = PostExpansion

\* C10, for the runs in which build_path returns: there the entries are
\* exactly the tokens that neither reason removes.
C10_WhenReturned ==
    BuildReturned =>
        /\ entries = AtIndices(PostExpansion, Appended)
        /\ path = Join(entries, path_args.sep)
        /\ (path_args.allow_dups /\ path_args.force) => entries = PostExpansion

\* -d -f: a repeated and a missing directory are both in the output
C10_Witness ==
    /\ BuildReturned
    /\ path_args.allow_dups
    /\ path_args.force
    /\ path_args.arg_vec = << <<"/", "a", "/", "a">>, <<"a">>, <<"/", "a", "/", "a">> >>
    /\ fs = { <<>>, << <<"a">> >> }
    /\ path = <<"/", "a", "/", "a", ":", "a", ":", "/", "a", "/", "a">>

====
